---- MODULE Spec2Model ----
(***************************************************************************)
(* Game Tracker (src/game_tracker.py): the in-memory record list, its      *)
(* JSON file, the rendered table and the handlers of GameTrackerApp.       *)
(*                                                                         *)
(* Strings the code inspects character by character (titles, the rating   *)
(* entry, the filter) are sequences of one-character strings.  Statuses    *)
(* are compared as wholes and stay TLA+ strings.                           *)
(***************************************************************************)
EXTENDS Integers, Sequences, FiniteSets, TLC

VARIABLES
    games,      \* self.games: sequence of [title, status, rating]
    fs,         \* the two files of save_data: fs.data (games_data.json), fs.tmp
    sort_by,    \* self.sort_by: [field, ascending]
    var_filter, \* self.var_filter: text of the filter entry
    tree,       \* rows of self.tree, in display order
    reported,   \* what the last handler told the user, by message box or status
                \* line: [kind, title]; kind "none" when it told nothing
    saved,      \* what the last handler did with save_data: "none", "ok", "failed"
    pc,         \* position inside a handler's save_data (SpecSave only): [at, refresh],
                \* refresh telling whether the handler calls refresh_table next
    prev        \* fs.data when the running save_data was entered, NoFile when none runs

vars == <<games, fs, sort_by, var_filter, tree, reported, saved, pc, prev>>

(***************************************************************************)
(* Bounds and sample inputs.                                               *)
(***************************************************************************)
MaxFileLen == 2     \* entries in the data file found at startup

STATUS_TBP == "to be played"
STATUS_COMPLETED == "completed"
VALID_STATUSES == {STATUS_TBP, STATUS_COMPLETED}

\* Python's None as a rating; ratings proper are integers.
None == 0

\* What the entry form holds when on_add_update is entered: title, status
\* and rating entry.  _sync_rating_state keeps the rating entry empty unless
\* the status is completed; the last status is not a valid one.
Form(t, s, r) == [title |-> t, status |-> s, rating |-> r]
FormInputs == {
    Form(<<" ", "a">>, STATUS_TBP, <<>>),
    Form(<<"A">>, STATUS_TBP, <<>>),
    Form(<<"b">>, STATUS_TBP, <<>>),
    Form(<<" ", "a">>, STATUS_COMPLETED, <<" ", "7">>),
    Form(<<"A">>, STATUS_COMPLETED, <<"7">>),
    Form(<<"b">>, STATUS_COMPLETED, <<"7", " ">>),
    Form(<<>>, STATUS_TBP, <<>>),
    Form(<<" ">>, STATUS_COMPLETED, <<"7">>),
    Form(<<"A">>, "abandoned", <<>>),
    Form(<<" ", "a">>, STATUS_COMPLETED, <<>>),
    Form(<<"A">>, STATUS_COMPLETED, <<" ">>),
    Form(<<"b">>, STATUS_COMPLETED, <<"x">>),
    Form(<<"b">>, STATUS_COMPLETED, <<"1", "1">>),
    Form(<<"A">>, STATUS_COMPLETED, <<"0">>) }
\* What _prompt_for_rating returns: None on cancel, else an integer 1..10.
PromptResults == {None, 7}
\* Text typed into the filter entry.
FilterInputs == {<<>>, <<"A", " ">>}
Fields == {"title", "status", "rating"}

(***************************************************************************)
(* Python string primitives.                                               *)
(***************************************************************************)
Digits == <<"0", "1", "2", "3", "4", "5", "6", "7", "8", "9">>
IsDigit(c) == \E d \in 1..Len(Digits) : Digits[d] = c
DigitOf(c) == (CHOOSE d \in 1..Len(Digits) : Digits[d] = c) - 1

\* ord(c) for the characters used.
Ord(c) ==
    IF IsDigit(c) THEN 48 + DigitOf(c)
    ELSE CASE c = " " -> 32
           [] c = "-" -> 45
           [] c = "A" -> 65
           [] c = "N" -> 78
           [] c = "a" -> 97
           [] c = "b" -> 98
           [] c = "e" -> 101
           [] c = "n" -> 110
           [] c = "o" -> 111
           [] c = "x" -> 120

\* str.lower() on one character.
LowerChar(c) == IF c = "A" THEN "a" ELSE IF c = "N" THEN "n" ELSE c

\* str.lower()
Lower(s) == [i \in 1..Len(s) |-> LowerChar(s[i])]

RECURSIVE LStrip(_)
LStrip(s) == IF s # <<>> /\ Head(s) = " " THEN LStrip(Tail(s)) ELSE s

RECURSIVE RStrip(_)
RStrip(s) ==
    IF s # <<>> /\ s[Len(s)] = " " THEN RStrip(SubSeq(s, 1, Len(s) - 1)) ELSE s

\* str.strip()
Strip(s) == RStrip(LStrip(s))

\* a < b on strings: lexicographic by code point.
RECURSIVE StrLess(_, _)
StrLess(a, b) ==
    IF b = <<>> THEN FALSE
    ELSE IF a = <<>> THEN TRUE
    ELSE IF Ord(Head(a)) < Ord(Head(b)) THEN TRUE
    ELSE IF Ord(Head(a)) > Ord(Head(b)) THEN FALSE
    ELSE StrLess(Tail(a), Tail(b))

\* needle in hay
Contains(needle, hay) ==
    \E i \in 0..(Len(hay) - Len(needle)) :
        SubSeq(hay, i + 1, i + Len(needle)) = needle

RECURSIVE DigitsValue(_)
DigitsValue(s) ==
    IF s = <<>> THEN 0
    ELSE 10 * DigitsValue(SubSeq(s, 1, Len(s) - 1)) + DigitOf(s[Len(s)])

\* int(s) for a string: [ok, v]; ok is FALSE where Python raises ValueError.
ParseInt(s) ==
    LET t == Strip(s)
        neg == t # <<>> /\ Head(t) = "-"
        d == IF neg THEN Tail(t) ELSE t
    IN  IF d # <<>> /\ \A i \in 1..Len(d) : IsDigit(d[i])
        THEN [ok |-> TRUE, v |-> IF neg THEN 0 - DigitsValue(d) ELSE DigitsValue(d)]
        ELSE [ok |-> FALSE, v |-> 0]

\* str(n) for an integer n.
RECURSIVE NatToStr(_)
NatToStr(n) ==
    IF n < 10 THEN <<Digits[n + 1]>> ELSE Append(NatToStr(n \div 10), Digits[(n % 10) + 1])

IntToStr(n) == IF n < 0 THEN <<"-">> \o NatToStr(0 - n) ELSE NatToStr(n)

(***************************************************************************)
(* Files and JSON documents.                                               *)
(***************************************************************************)
NoFile == [kind |-> "absent", items |-> <<>>]
\* content json.loads or the loop of load_data raises on
Corrupt == [kind |-> "corrupt", items |-> <<>>]
Doc(items) == [kind |-> "doc", items |-> items]
\* a document of which only a prefix has been written
Partial(items) == [kind |-> "partial", items |-> items]

JAbsent == [k |-> "absent", n |-> 0, s |-> <<>>]
JNull == [k |-> "null", n |-> 0, s |-> <<>>]
JInt(n) == [k |-> "int", n |-> n, s |-> <<>>]
JStr(s) == [k |-> "str", n |-> 0, s |-> s]
ABSENT == "<absent>"

\* Entries a data file found at startup may hold.
RawItems == {
    [title |-> JStr(<<"a">>), status |-> STATUS_TBP, rating |-> JInt(7)],
    [title |-> JStr(<<" ", "a">>), status |-> STATUS_COMPLETED, rating |-> JNull],
    [title |-> JStr(<<"A">>), status |-> STATUS_COMPLETED, rating |-> JStr(<<"1", "1">>)],
    [title |-> JStr(<<"b">>), status |-> ABSENT, rating |-> JStr(<<"x">>)],
    [title |-> JAbsent, status |-> STATUS_TBP, rating |-> JAbsent],
    [title |-> JStr(<<"b">>), status |-> "abandoned", rating |-> JInt(0)] }

RECURSIVE SeqsUpTo(_, _)
SeqsUpTo(S, n) ==
    IF n = 0 THEN {<<>>}
    ELSE LET shorter == SeqsUpTo(S, n - 1)
         IN  shorter \cup {Append(q, x) : q \in {r \in shorter : Len(r) = n - 1}, x \in S}

InitialFiles == {NoFile, Corrupt} \cup {Doc(items) : items \in SeqsUpTo(RawItems, MaxFileLen)}

(***************************************************************************)
(* load_data                                                               *)
(***************************************************************************)
\* str(item.get("title", ""))
TitleText(j) ==
    CASE j.k = "absent" -> <<>>
      [] j.k = "str" -> j.s
      [] j.k = "null" -> <<"N", "o", "n", "e">>
      [] j.k = "int" -> IntToStr(j.n)

\* int(rating) with TypeError/ValueError -> None, then min(10, max(1, rating))
NormalizeRating(j) ==
    LET r == CASE j.k = "int" -> [ok |-> TRUE, v |-> j.n]
               [] j.k = "str" -> ParseInt(j.s)
               [] OTHER -> [ok |-> FALSE, v |-> 0]
    IN  IF ~r.ok THEN None
        ELSE IF r.v < 1 THEN 1 ELSE IF r.v > 10 THEN 10 ELSE r.v

\* LoadItem with the title folded to lower case as well as stripped.
LoadItemLower(item) ==
    LET title == Lower(Strip(TitleText(item.title)))
        status == IF item.status = ABSENT THEN STATUS_TBP ELSE item.status
    IN  IF status \notin VALID_STATUSES \/ title = <<>> THEN <<>>
        ELSE <<[title |-> title, status |-> status,
                rating |-> IF status = STATUS_COMPLETED
                           THEN NormalizeRating(item.rating) ELSE None]>>

\* One pass of the loop body: <<>> when the entry is skipped, else <<record>>.
LoadItem(item) ==
    LET title == Strip(TitleText(item.title))
        status == IF item.status = ABSENT THEN STATUS_TBP ELSE item.status
    IN  IF status \notin VALID_STATUSES \/ title = <<>> THEN <<>>
        ELSE <<[title |-> title, status |-> status,
                rating |-> IF status = STATUS_COMPLETED
                           THEN NormalizeRating(item.rating) ELSE None]>>

RECURSIVE LoadItems(_)
LoadItems(items) ==
    IF items = <<>> THEN <<>> ELSE LoadItem(Head(items)) \o LoadItems(Tail(items))

\* self.games after load_data() on file f
load_data(f) == IF f.kind = "doc" THEN LoadItems(f.items) ELSE <<>>

(***************************************************************************)
(* save_data: json.dumps(self.games)                                       *)
(***************************************************************************)
DumpItem(g) ==
    [title |-> JStr(g.title), status |-> g.status,
     rating |-> IF g.rating = None THEN JNull ELSE JInt(g.rating)]

Dumps(gs) == [i \in 1..Len(gs) |-> DumpItem(gs[i])]

(***************************************************************************)
(* refresh_table: filter, sort, render.  A query result is the sequence of *)
(* positions in the list of the records shown.                             *)
(***************************************************************************)
\* items = [g for g in items if needle in g["title"].lower()]
FilterItems(gs, text) ==
    LET needle == Lower(Strip(text))
        F[i \in 0..Len(gs)] ==
            IF i = 0 THEN <<>>
            ELSE IF needle = <<>> \/ Contains(needle, Lower(gs[i].title))
                 THEN Append(F[i - 1], i) ELSE F[i - 1]
    IN  F[Len(gs)]

\* sort_key(a) < sort_key(b)
KeyLess(field, a, b) ==
    CASE field = "rating" ->
            (IF a.rating = None THEN 0 - 1 ELSE a.rating)
                < (IF b.rating = None THEN 0 - 1 ELSE b.rating)
      [] field = "title" -> StrLess(a.title, b.title)
      [] field = "status" -> a.status = STATUS_COMPLETED /\ b.status = STATUS_TBP

\* InsertPos of a descending sort that puts x before the elements it ties with.
InsertPosBeforeTies(gs, r, x, field, ascending) ==
    Cardinality({j \in 1..Len(r) :
        IF ascending THEN ~KeyLess(field, gs[x], gs[r[j]])
                     ELSE KeyLess(field, gs[x], gs[r[j]])})

\* Where a stable sort puts x, which comes after every element of the sorted
\* run r in the input: behind the elements that do not sort after it.
InsertPos(gs, r, x, field, ascending) ==
    Cardinality({j \in 1..Len(r) :
        IF ascending THEN ~KeyLess(field, gs[x], gs[r[j]])
                     ELSE ~KeyLess(field, gs[r[j]], gs[x])})

\* sorted(items, key=sort_key, reverse=not ascending)
RECURSIVE Sorted(_, _, _, _)
Sorted(gs, items, field, ascending) ==
    IF items = <<>> THEN <<>>
    ELSE LET r == Sorted(gs, SubSeq(items, 1, Len(items) - 1), field, ascending)
             x == items[Len(items)]
             p == InsertPos(gs, r, x, field, ascending)
         IN  SubSeq(r, 1, p) \o <<x>> \o SubSeq(r, p + 1, Len(r))

\* query(filterText, sortField, ascending)
Query(gs, text, field, ascending) == Sorted(gs, FilterItems(gs, text), field, ascending)

\* The values of one row: (title, status, rating_str)
Row(g) ==
    [title |-> g.title, status |-> g.status,
     rating |-> IF g.status # STATUS_COMPLETED \/ g.rating = None
                THEN <<>> ELSE IntToStr(g.rating)]

\* The rows refresh_table inserts.
Render(gs, text, sb) ==
    LET q == Query(gs, text, sb.field, sb.ascending)
    IN  [i \in 1..Len(q) |-> Row(gs[q[i]])]

\* A status line naming a title, and a message that names none.
Status(kind, title) == [kind |-> kind, title |-> title]
Message(text) == [kind |-> text, title |-> <<>>]
\* "N item(s) shown (M total)"
Shown == Message("shown")
Quiet == Message("none")

(***************************************************************************)
(* The handlers' effect on self.games.                                     *)
(***************************************************************************)
\* _get_selected_item: position of the first record whose title is the
\* selected row's title; 0 for None.
get_selected_item(gs, tr, s) ==
    IF s = 0 THEN 0
    ELSE IF \E i \in 1..Len(gs) : gs[i].title = tr[s].title
         THEN CHOOSE i \in 1..Len(gs) :
                /\ gs[i].title = tr[s].title
                /\ \A j \in 1..(i - 1) : gs[j].title # tr[s].title
         ELSE 0

\* Validate without the check of the range 1..10.
ValidateNoRange(title, status, rating_raw) ==
    IF title = <<>> THEN "Title is required."
    ELSE IF status \notin VALID_STATUSES THEN "Invalid status."
    ELSE IF status # STATUS_COMPLETED THEN "none"
    ELSE IF rating_raw = <<>> THEN "Please provide a rating (1-10) for completed games."
    ELSE IF ~ParseInt(rating_raw).ok THEN "Rating must be an integer (1-10)."
    ELSE "none"

\* The validation of on_add_update: the message shown, "none" when valid.
Validate(title, status, rating_raw) ==
    IF title = <<>> THEN "Title is required."
    ELSE IF status \notin VALID_STATUSES THEN "Invalid status."
    ELSE IF status # STATUS_COMPLETED THEN "none"
    ELSE IF rating_raw = <<>> THEN "Please provide a rating (1-10) for completed games."
    ELSE IF ~ParseInt(rating_raw).ok THEN "Rating must be an integer (1-10)."
    ELSE IF ~(1 <= ParseInt(rating_raw).v /\ ParseInt(rating_raw).v <= 10)
         THEN "Rating must be between 1 and 10."
    ELSE "none"

\* Existing with the titles compared as they are, case included.
ExistingExact(gs, title) ==
    IF \E i \in 1..Len(gs) : gs[i].title = title
    THEN CHOOSE i \in 1..Len(gs) :
            /\ gs[i].title = title
            /\ \A j \in 1..(i - 1) : gs[j].title # title
    ELSE 0

\* existing = next((g for g in self.games if g["title"].lower() == title.lower()), None)
Existing(gs, title) ==
    IF \E i \in 1..Len(gs) : Lower(gs[i].title) = Lower(title)
    THEN CHOOSE i \in 1..Len(gs) :
            /\ Lower(gs[i].title) = Lower(title)
            /\ \A j \in 1..(i - 1) : Lower(gs[j].title) # Lower(title)
    ELSE 0

\* The update-or-append of on_add_update, for validated input.
AddUpdate(gs, title, status, rating) ==
    LET r == IF status = STATUS_COMPLETED THEN rating ELSE None
        e == Existing(gs, title)
    IN  IF e # 0
        THEN [gs EXCEPT ![e].status = status, ![e].rating = r]
        ELSE Append(gs, [title |-> title, status |-> status, rating |-> r])

\* self.games = [g for g in self.games if g is not item]
DeleteItem(gs, k) == SubSeq(gs, 1, k - 1) \o SubSeq(gs, k + 1, Len(gs))

\* mark_selected_completed on record k, the prompt answering p.
MarkCompleted(gs, k, p) ==
    IF gs[k].rating = None
    THEN IF p = None
         THEN [gs EXCEPT ![k].status = STATUS_TBP]
         ELSE [gs EXCEPT ![k].status = STATUS_COMPLETED, ![k].rating = p]
    ELSE [gs EXCEPT ![k].status = STATUS_COMPLETED]

\* MarkTbp that leaves the rating in place.
MarkTbpKeepsRating(gs, k) == [gs EXCEPT ![k].status = STATUS_TBP]

\* mark_selected_tbp on record k.
MarkTbp(gs, k) == [gs EXCEPT ![k].status = STATUS_TBP, ![k].rating = None]

(***************************************************************************)
(* save_data.  Spec runs it to completion on a file system whose           *)
(* write_text and replace succeed; SpecSave runs it step by step, with     *)
(* I/O errors and crashes.                                                 *)
(***************************************************************************)
\* SaveTarget of a save that writes the data file in place.
SaveInPlace == "data"

\* The file write_text writes the payload to: "tmp" is DATA_FILE.with_suffix(".json.tmp").
SaveTarget == "tmp"

\* tmp.replace(DATA_FILE)
Replace(f) == IF SaveTarget = "tmp" THEN [data |-> f.tmp, tmp |-> NoFile] ELSE f

\* Files after a save_data of gs in which nothing raised.
Written(f, gs) == Replace([f EXCEPT ![SaveTarget] = Doc(Dumps(gs))])

save_data(gs) ==
    /\ fs' = Written(fs, gs)
    /\ saved' = "ok"

refresh_table(gs, text, sb) == tree' = Render(gs, text, sb)

NoSave == saved' = "none" /\ UNCHANGED fs
AtRest == [at |-> "idle", refresh |-> FALSE]
Idle == pc = AtRest /\ UNCHANGED <<pc, prev>>

(***************************************************************************)
(* Initial state: after __init__ (load_data, refresh_table).               *)
(***************************************************************************)
Init ==
    \E f \in InitialFiles :
        /\ fs = [data |-> f, tmp |-> NoFile]
        /\ games = load_data(f)
        /\ sort_by = [field |-> "title", ascending |-> TRUE]
        /\ var_filter = <<>>
        /\ tree = Render(load_data(f), <<>>, [field |-> "title", ascending |-> TRUE])
        /\ reported = IF f.kind = "corrupt" THEN Message("Load error") ELSE Shown
        /\ saved = "none"
        /\ pc = AtRest
        /\ prev = NoFile

(***************************************************************************)
(* Handlers.                                                               *)
(***************************************************************************)
sort_by_column(field) ==
    /\ Idle
    /\ sort_by' = IF sort_by.field = field
                  THEN [field |-> field, ascending |-> ~sort_by.ascending]
                  ELSE [field |-> field, ascending |-> TRUE]
    /\ refresh_table(games, var_filter, sort_by')
    /\ reported' = Shown
    /\ NoSave
    /\ UNCHANGED <<games, var_filter>>

\* <KeyRelease> in the filter entry
filter_key(text) ==
    /\ Idle
    /\ var_filter' = text
    /\ refresh_table(games, text, sort_by)
    /\ reported' = Shown
    /\ NoSave
    /\ UNCHANGED <<games, sort_by>>

\* The row selected when a handler is entered is an input of the handler: a
\* row i of the table, or 0 for no selection (the user selects any row, and
\* clear_form or a refresh drops the selection, between two handlers;
\* on_tree_select itself only fills the entry form).
Selections == 0..Len(tree)

on_add_update(title_in, status, rating_in) ==
    LET title == Strip(title_in)
        rating_raw == Strip(rating_in)
        v == Validate(title, status, rating_raw)
    IN  /\ Idle
        /\ IF v # "none"
           THEN /\ reported' = Message(v)
                /\ NoSave
                /\ UNCHANGED <<games, sort_by, var_filter, tree>>
           ELSE /\ games' = AddUpdate(games, title, status,
                                IF status = STATUS_COMPLETED
                                THEN ParseInt(rating_raw).v ELSE None)
                /\ save_data(games')
                /\ refresh_table(games', var_filter, sort_by)
                /\ reported' = Status(IF Existing(games, title) # 0
                                       THEN "updated" ELSE "added", title)
                /\ UNCHANGED <<sort_by, var_filter>>

delete_selected(i, confirm) ==
    LET k == get_selected_item(games, tree, i)
    IN  /\ Idle
        /\ IF k = 0
           THEN /\ reported' = Message("Please select a row to delete.")
                /\ NoSave
                /\ UNCHANGED <<games, sort_by, var_filter, tree>>
           ELSE IF ~confirm
           THEN /\ reported' = Quiet
                /\ NoSave
                /\ UNCHANGED <<games, sort_by, var_filter, tree>>
           ELSE /\ games' = DeleteItem(games, k)
                /\ save_data(games')
                /\ refresh_table(games', var_filter, sort_by)
                /\ reported' = Status("deleted", games[k].title)
                /\ UNCHANGED <<sort_by, var_filter>>

mark_selected_completed(i, p) ==
    LET k == get_selected_item(games, tree, i)
    IN  /\ Idle
        /\ IF k = 0
           THEN /\ reported' = Message("Please select a row first.")
                /\ NoSave
                /\ UNCHANGED <<games, sort_by, var_filter, tree>>
           ELSE IF games[k].rating = None /\ p = None
           THEN /\ games' = MarkCompleted(games, k, p)
                /\ reported' = Quiet
                /\ NoSave
                /\ UNCHANGED <<sort_by, var_filter, tree>>
           ELSE /\ games' = MarkCompleted(games, k, p)
                /\ save_data(games')
                /\ refresh_table(games', var_filter, sort_by)
                /\ reported' = Status("completed", games[k].title)
                /\ UNCHANGED <<sort_by, var_filter>>

mark_selected_tbp(i) ==
    LET k == get_selected_item(games, tree, i)
    IN  /\ Idle
        /\ IF k = 0
           THEN /\ reported' = Message("Please select a row first.")
                /\ NoSave
                /\ UNCHANGED <<games, sort_by, var_filter, tree>>
           ELSE /\ games' = MarkTbp(games, k)
                /\ save_data(games')
                /\ refresh_table(games', var_filter, sort_by)
                /\ reported' = Status("tbp", games[k].title)
                /\ UNCHANGED <<sort_by, var_filter>>

\* <Control-s>
ctrl_s ==
    /\ Idle
    /\ save_data(games)
    /\ reported' = Quiet
    /\ UNCHANGED <<games, sort_by, var_filter, tree>>

Next ==
    \/ \E x \in FormInputs : on_add_update(x.title, x.status, x.rating)
    \/ \E i \in Selections, c \in BOOLEAN : delete_selected(i, c)
    \/ \E i \in Selections, p \in PromptResults : mark_selected_completed(i, p)
    \/ \E i \in Selections : mark_selected_tbp(i)
    \/ ctrl_s

Spec == Init /\ [][Next]_vars

(***************************************************************************)
(* SpecView: the handlers that re-sort and filter the table, over the      *)
(* lists load_data and on_add_update produce.                              *)
(***************************************************************************)
NextView ==
    \/ \E field \in Fields : sort_by_column(field)
    \/ \E text \in FilterInputs : filter_key(text)
    \/ \E x \in FormInputs : on_add_update(x.title, x.status, x.rating)

SpecView == Init /\ [][NextView]_vars

(***************************************************************************)
(* SpecSave: the saving paths of the handlers with save_data in steps.     *)
(* A handler changes self.games and enters save_data; write_text opens     *)
(* (truncates) its target, writes the payload piece by piece and closes    *)
(* it; replace renames it over the data file.  Any step may raise, which   *)
(* save_data catches, and the process may stop at any step.                *)
(***************************************************************************)
Saving(gs, refresh) ==
    /\ games' = gs
    /\ pc' = [at |-> "open", refresh |-> refresh]
    /\ prev' = fs.data
    /\ UNCHANGED <<fs, sort_by, var_filter, tree, reported, saved>>

begin_add_update(title_in, status, rating_in) ==
    LET title == Strip(title_in)
        rating_raw == Strip(rating_in)
    IN  /\ Validate(title, status, rating_raw) = "none"
        /\ Saving(AddUpdate(games, title, status,
                            IF status = STATUS_COMPLETED
                            THEN ParseInt(rating_raw).v ELSE None), TRUE)

begin_delete(i) ==
    LET k == get_selected_item(games, tree, i)
    IN  k # 0 /\ Saving(DeleteItem(games, k), TRUE)

begin_completed(i, p) ==
    LET k == get_selected_item(games, tree, i)
    IN  /\ k # 0
        /\ ~(games[k].rating = None /\ p = None)
        /\ Saving(MarkCompleted(games, k, p), TRUE)

begin_tbp(i) ==
    LET k == get_selected_item(games, tree, i)
    IN  k # 0 /\ Saving(MarkTbp(games, k), TRUE)

begin_ctrl_s == Saving(games, FALSE)

Step(from, to) ==
    /\ pc.at = from
    /\ pc' = [pc EXCEPT !.at = to]
    /\ UNCHANGED <<games, sort_by, var_filter, tree, reported, saved, prev>>

\* write_text: open(target, "w") creates or truncates the file
open_tmp ==
    /\ Step("open", "write")
    /\ fs' = [fs EXCEPT ![SaveTarget] = Partial(<<>>)]

\* write_text: one more piece of the payload reaches the file
write_tmp ==
    /\ Len(fs[SaveTarget].items) < Len(games)
    /\ Step("write", "write")
    /\ fs' = [fs EXCEPT ![SaveTarget] =
                Partial(SubSeq(Dumps(games), 1, Len(fs[SaveTarget].items) + 1))]

\* write_text: the last piece is written and the file closed
close_tmp ==
    /\ Len(fs[SaveTarget].items) = Len(games)
    /\ Step("write", "replace")
    /\ fs' = [fs EXCEPT ![SaveTarget] = Doc(Dumps(games))]

replace_tmp ==
    /\ pc.at = "replace"
    /\ fs' = Replace(fs)
    /\ saved' = "ok"
    /\ pc' = [pc EXCEPT !.at = "return"]
    /\ UNCHANGED <<games, sort_by, var_filter, tree, reported, prev>>

\* except Exception: messagebox.showerror
io_error ==
    /\ pc.at \in {"open", "write", "replace"}
    /\ saved' = "failed"
    /\ pc' = [pc EXCEPT !.at = "return"]
    /\ UNCHANGED <<games, fs, sort_by, var_filter, tree, reported, prev>>

\* save_data has returned: the rest of the handler
finish ==
    /\ pc.at = "return"
    /\ IF pc.refresh THEN refresh_table(games, var_filter, sort_by)
                     ELSE UNCHANGED tree
    /\ pc' = AtRest
    /\ prev' = NoFile
    /\ UNCHANGED <<games, fs, sort_by, var_filter, reported, saved>>

\* The process stops inside save_data, or on its return.
crash ==
    /\ pc.at \in {"open", "write", "replace", "return"}
    /\ pc' = [pc EXCEPT !.at = "crashed"]
    /\ UNCHANGED <<games, fs, sort_by, var_filter, tree, reported, saved, prev>>

\* A handler is entered when none is running; runs are followed up to their
\* first I/O error.
Enter ==
    /\ pc = AtRest
    /\ saved # "failed"
    /\ \/ \E x \in FormInputs : begin_add_update(x.title, x.status, x.rating)
       \/ \E i \in Selections : begin_delete(i)
       \/ \E i \in Selections, p \in PromptResults : begin_completed(i, p)
       \/ \E i \in Selections : begin_tbp(i)
       \/ begin_ctrl_s

NextSave ==
    \/ Enter
    \/ open_tmp
    \/ write_tmp
    \/ close_tmp
    \/ replace_tmp
    \/ io_error
    \/ finish
    \/ crash

SpecSave == Init /\ [][NextSave]_vars

(***************************************************************************)
(* Properties.                                                             *)
(***************************************************************************)
Reverse(q) == [i \in 1..Len(q) |-> q[Len(q) + 1 - i]]
Range(q) == {q[i] : i \in 1..Len(q)}
SameKey(field, a, b) == ~KeyLess(field, a, b) /\ ~KeyLess(field, b, a)

\* The input of addOrUpdate is valid: a non-empty trimmed title, a valid
\* status, and for completed a rating entry that is an integer in 1..10.
ValidInput(t, s, r) ==
    /\ Strip(t) # <<>>
    /\ s \in VALID_STATUSES
    /\ s = STATUS_COMPLETED =>
        /\ Strip(r) # <<>>
        /\ ParseInt(Strip(r)).ok
        /\ ParseInt(Strip(r)).v \in 1..10

\* The rating addOrUpdate is given: the parsed entry, null for to-be-played.
GivenRating(s, r) == IF s = STATUS_COMPLETED THEN ParseInt(Strip(r)).v ELSE None

ValidForms == {x \in FormInputs : ValidInput(x.title, x.status, x.rating)}
InvalidForms == FormInputs \ ValidForms

\* The position of the first record of gs whose title equals title
\* case-insensitively; 0 when there is none.
FirstSame(gs, title) ==
    LET same == {i \in 1..Len(gs) : Lower(gs[i].title) = Lower(title)}
    IN  IF same = {} THEN 0 ELSE CHOOSE i \in same : \A j \in same : i <= j

\* addOrUpdate succeeded: the status line names reported.title as added or
\* updated.
Succeeded == reported.kind \in {"added", "updated"}

\* C1: in every reachable state no two records of the list have titles that
\* are equal under case-insensitive comparison.
C1_UniqueTitles ==
    \A i, j \in 1..Len(games) :
        i # j => Lower(games[i].title) # Lower(games[j].title)

\* C2: after any operation, every record whose status is to-be-played has
\* rating null.
C2_TbpHasNoRating ==
    \A i \in 1..Len(games) :
        games[i].status = STATUS_TBP => games[i].rating = None

\* A to-be-played record left by mark_selected_tbp stands next to a rated one.
C2_Witness ==
    /\ reported.kind = "tbp"
    /\ \E i, j \in 1..Len(games) :
        /\ games[i].title = reported.title
        /\ games[i].status = STATUS_TBP
        /\ games[j].status = STATUS_COMPLETED
        /\ games[j].rating # None

\* C3 as claimed: after a successful addOrUpdate(title, status, rating) the
\* unfiltered query sorted by title ascending contains exactly one record
\* whose title is the given trimmed title, whose status is the given status
\* and whose rating is the given rating.
C3_Original ==
    [][Succeeded' => \A x \in ValidForms :
        (reported'.title = Strip(x.title) /\ on_add_update(x.title, x.status, x.rating)) =>
            LET q == Query(games', <<>>, "title", TRUE)
            IN  Cardinality({n \in 1..Len(q) :
                    /\ games'[q[n]].title = Strip(x.title)
                    /\ games'[q[n]].status = x.status
                    /\ games'[q[n]].rating = GivenRating(x.status, x.rating)}) = 1]_vars

\* C3 as amended: after a successful addOrUpdate the first record of the list
\* whose title equals the given trimmed title case-insensitively has the
\* given status and rating and appears exactly once in the unfiltered query
\* sorted by title ascending; when no title matched before the call, that
\* record is a new last record that carries the given title, and otherwise
\* the list keeps its length and its titles.
C3_Amended ==
    [][Succeeded' => \A x \in ValidForms :
        (reported'.title = Strip(x.title) /\ on_add_update(x.title, x.status, x.rating)) =>
            LET q == Query(games', <<>>, "title", TRUE)
                first == FirstSame(games', Strip(x.title))
            IN  /\ first # 0
                /\ games'[first].status = x.status
                /\ games'[first].rating = GivenRating(x.status, x.rating)
                /\ Cardinality({n \in 1..Len(q) : q[n] = first}) = 1
                /\ IF FirstSame(games, Strip(x.title)) = 0
                   THEN /\ first = Len(games) + 1
                        /\ Len(games') = Len(games) + 1
                        /\ games'[first].title = Strip(x.title)
                   ELSE /\ Len(games') = Len(games)
                        /\ \A i \in 1..Len(games) : games'[i].title = games[i].title]_vars

\* An update under a title that differs in case from the stored one: no
\* record carries the title the status line names.
C3_Witness ==
    /\ reported.kind = "updated"
    /\ \A i \in 1..Len(games) : games[i].title # reported.title
    /\ \E i \in 1..Len(games) :
        /\ Lower(games[i].title) = Lower(reported.title)
        /\ games[i].status = STATUS_COMPLETED
        /\ games[i].rating = 7

\* C4: when addOrUpdate fails validation, the list is unchanged and no save
\* is performed: a step that changes the list or the files, or saves, is no
\* addOrUpdate on invalid input.
C4_InvalidChangesNothing ==
    [][\/ /\ games' = games
          /\ fs' = fs
          /\ saved' = "none"
       \/ \A x \in InvalidForms : ~on_add_update(x.title, x.status, x.rating)]_vars

\* "rating required" was just reported over a list that holds records.
C4_Witness ==
    /\ reported = Message("Please provide a rating (1-10) for completed games.")
    /\ saved = "none"
    /\ Len(games) >= 2

\* C5 as claimed: setStatus to Completed on a record without rating, the
\* prompt cancelled, leaves the record's status and rating as they were.
C5_CancelLeavesRecord ==
    [][\A i \in Selections :
        mark_selected_completed(i, None) =>
            \A k \in 1..Len(games) :
                games[k].rating = None =>
                    /\ games'[k].status = games[k].status
                    /\ games'[k].rating = games[k].rating]_vars

\* C6 as claimed: query with ascending=false is the exact reverse of query
\* with ascending=true on the same list, filter and field.  Stated for the
\* filter text and the sort field of the state, which range over every
\* filter and field, and for lists whose titles are unique, so that a
\* violation does not rest on duplicate titles.
C6_Original ==
    C1_UniqueTitles =>
        Query(games, var_filter, sort_by.field, FALSE)
            = Reverse(Query(games, var_filter, sort_by.field, TRUE))

\* C6 as amended: query with ascending=false returns the same records as with
\* ascending=true, in non-increasing order of the sort key, records that tie
\* on the key keeping the order they have in the list (their order in the
\* ascending result, not its reverse); it is the exact reverse of the
\* ascending result when no two of the records tie.
C6_Amended ==
    LET field == sort_by.field
        asc == Query(games, var_filter, field, TRUE)
        desc == Query(games, var_filter, field, FALSE)
        ties == \E m, n \in 1..Len(asc) :
                    m # n /\ SameKey(field, games[asc[m]], games[asc[n]])
    IN  /\ Len(desc) = Len(asc)
        /\ Range(desc) = Range(asc)
        /\ \A m, n \in 1..Len(desc) :
            m < n =>
                /\ ~KeyLess(field, games[desc[m]], games[desc[n]])
                /\ SameKey(field, games[desc[m]], games[desc[n]]) => desc[m] < desc[n]
        /\ \A m, n \in 1..Len(asc) :
            (m < n /\ SameKey(field, games[asc[m]], games[asc[n]])) => asc[m] < asc[n]
        /\ ~ties => desc = Reverse(asc)

\* The table is sorted by status, descending, shows two records that tie and
\* one that does not, and is not the reverse of the ascending table.
C6_Witness ==
    /\ sort_by = [field |-> "status", ascending |-> FALSE]
    /\ Len(tree) >= 3
    /\ \E m, n \in 1..Len(tree) :
        /\ tree[m].status = tree[n].status
        /\ tree[m].title # tree[n].title
    /\ \E m, n \in 1..Len(tree) : tree[m].status # tree[n].status
    /\ tree # Reverse(Render(games, var_filter, [field |-> "status", ascending |-> TRUE]))

\* C7: a successful save followed by load yields the same titles, statuses
\* and ratings in the same order.
C7_RoundTrip == saved = "ok" => load_data(fs.data) = games

\* A saved list with a rated record, an unrated completed one and an
\* upper-case title.
C7_Witness ==
    /\ saved = "ok"
    /\ load_data(fs.data) = games
    /\ \E i, j, k \in 1..Len(games) :
        /\ games[i].rating # None
        /\ games[j].status = STATUS_COMPLETED /\ games[j].rating = None
        /\ games[k].status = STATUS_TBP
        /\ games[i].title = <<"A">>

\* C8: at every step of save_data, and if the process stops there, the data
\* file holds the complete document it held when save_data was entered or
\* the complete new document.
C8_DataFileWhole ==
    pc # AtRest => fs.data \in {prev, Doc(Dumps(games))}

\* The process stopped while the payload was half written: the temp file is
\* partial and the data file still holds the previous, different document.
C8_Witness ==
    /\ pc.at = "crashed"
    /\ fs.tmp.kind = "partial"
    /\ Len(fs.tmp.items) = 1
    /\ Len(games) >= 2
    /\ prev.kind = "doc"
    /\ fs.data = prev
    /\ prev # Doc(Dumps(games))

\* C9: every operation that leaves the list different from what it was
\* performs a save of the full list before it returns.
C9_ChangeIsSaved ==
    [][games' # games => (saved' = "ok" /\ fs'.data = Doc(Dumps(games')))]_vars

\* C10: a confirmed delete removes exactly the record the selected row
\* displays and leaves the others in their order; delete with no selection
\* changes nothing.
C10_DeleteRemovesShown ==
    [][\A i \in Selections :
        delete_selected(i, TRUE) =>
            IF i = 0 THEN games' = games
            ELSE \E k \in 1..Len(games) :
                    /\ Row(games[k]) = tree[i]
                    /\ games' = SubSeq(games, 1, k - 1) \o SubSeq(games, k + 1, Len(games))]_vars

====
